---- MODULE Spec2Model ----
(***************************************************************************)
(* Model of ai_gradio/providers/novita_gradio.py: the Novita AI provider   *)
(* of ai-gradio.  registry() resolves a credential and a system prompt and *)
(* builds a chat function; the chat function formats the conversation      *)
(* (preprocess), posts it and decodes the server-sent-event stream line by *)
(* line, yielding the accumulated assistant text after each chunk.         *)
(***************************************************************************)
EXTENDS Integers, Sequences, FiniteSets, TLC

(***************************************************************************)
(* Bounds of the model.                                                    *)
(***************************************************************************)
\* lines one response delivers in the stream specification
MaxFrames == 3
\* turns of a conversation history in the build specification
MaxTurns == 2
\* lines one response delivers in the build specification
BuildFrames == 1
\* lines one response delivers in the two-invocation specification
ConcFrames == 2

(***************************************************************************)
(* Program constants.                                                      *)
(***************************************************************************)
NOVITA_API_BASE_URL == "https://api.novita.ai/v3/openai"

MaxTokens == 1000

PromptDefault == "You are a helpful, harmless, and honest AI assistant."

PromptCoder == "You are an expert web developer specializing in creating clean, efficient, and modern web applications."

SystemPrompts(key) == IF key = "coder" THEN PromptCoder ELSE PromptDefault

(***************************************************************************)
(* Python values.  None is a value distinct from every string the model    *)
(* uses; a string is truthy when it is neither None nor empty.             *)
(***************************************************************************)
None == "<None>"

Truthy(s) == s # None /\ s # ""

\* an f-string field: str() of the value
Format(s) == IF s = None THEN "None" ELSE s

(***************************************************************************)
(* String primitives (Python str methods on TLC strings).                  *)
(***************************************************************************)
StartsWith(s, p) == Len(s) >= Len(p) /\ SubSeq(s, 1, Len(p)) = p

\* s[i:]
SliceFrom(s, i) == IF i >= Len(s) THEN "" ELSE SubSeq(s, i + 1, Len(s))

\* s[:i]
SliceTo(s, i) == IF i <= 0 THEN "" ELSE SubSeq(s, 1, IF i > Len(s) THEN Len(s) ELSE i)

CharAt(s, i) == SubSeq(s, i, i)

RECURSIVE LStrip(_, _)
LStrip(s, ch) ==
    IF Len(s) > 0 /\ CharAt(s, 1) = ch THEN LStrip(SliceFrom(s, 1), ch) ELSE s

RECURSIVE RStrip(_, _)
RStrip(s, ch) ==
    IF Len(s) > 0 /\ CharAt(s, Len(s)) = ch THEN RStrip(SliceTo(s, Len(s) - 1), ch) ELSE s

\* str.strip(ch); the lines of the model hold no whitespace but the space
Strip(s, ch) == RStrip(LStrip(s, ch), ch)

(***************************************************************************)
(* json.loads on the payloads the transport of the model delivers.  A      *)
(* parsed chunk is a record: isDict (the document is an object),           *)
(* hasChoices (it has the key "choices"), choices (the list); a choice has *)
(* hasDelta, hasContent, contentType ("str", "null", "int") and content.   *)
(***************************************************************************)
Choice(text) ==
    [hasDelta |-> TRUE, hasContent |-> TRUE, contentType |-> "str", content |-> text]

ChoiceNoContent ==
    [hasDelta |-> TRUE, hasContent |-> FALSE, contentType |-> "str", content |-> ""]

ChoiceNoDelta ==
    [hasDelta |-> FALSE, hasContent |-> FALSE, contentType |-> "str", content |-> ""]

ChoiceTyped(type, text) ==
    [hasDelta |-> TRUE, hasContent |-> TRUE, contentType |-> type, content |-> text]

Chunk(choices) == [isDict |-> TRUE, hasChoices |-> TRUE, choices |-> choices]

ChunkNoChoices == [isDict |-> TRUE, hasChoices |-> FALSE, choices |-> <<>>]

ChunkNotDict == [isDict |-> FALSE, hasChoices |-> FALSE, choices |-> <<>>]

JsonHi == "{\"choices\":[{\"delta\":{\"content\":\"Hi\"}}]}"
JsonThere == "{\"choices\":[{\"delta\":{\"content\":\" there\"}}]}"
JsonTwoChoices == "{\"choices\":[{\"delta\":{\"content\":\"A\"}},{\"delta\":{\"content\":\"B\"}}]}"
JsonRoleOnly == "{\"choices\":[{\"delta\":{\"role\":\"assistant\"}}]}"
JsonEmptyChoices == "{\"choices\":[]}"
JsonNoChoices == "{\"id\":\"x\"}"
JsonNoDelta == "{\"choices\":[{\"index\":0}]}"
JsonNullContent == "{\"choices\":[{\"delta\":{\"content\":null}}]}"
JsonIntContent == "{\"choices\":[{\"delta\":{\"content\":5}}]}"
JsonNumber == "5"

\* [ok |-> FALSE] is json.JSONDecodeError
JsonLoads(s) ==
    CASE s = JsonHi -> [ok |-> TRUE, val |-> Chunk(<<Choice("Hi")>>)]
      [] s = JsonThere -> [ok |-> TRUE, val |-> Chunk(<<Choice(" there")>>)]
      [] s = JsonTwoChoices -> [ok |-> TRUE, val |-> Chunk(<<Choice("A"), Choice("B")>>)]
      [] s = JsonRoleOnly -> [ok |-> TRUE, val |-> Chunk(<<ChoiceNoContent>>)]
      [] s = JsonEmptyChoices -> [ok |-> TRUE, val |-> Chunk(<<>>)]
      [] s = JsonNoChoices -> [ok |-> TRUE, val |-> ChunkNoChoices]
      [] s = JsonNoDelta -> [ok |-> TRUE, val |-> Chunk(<<ChoiceNoDelta>>)]
      [] s = JsonNullContent -> [ok |-> TRUE, val |-> Chunk(<<ChoiceTyped("null", "")>>)]
      [] s = JsonIntContent -> [ok |-> TRUE, val |-> Chunk(<<ChoiceTyped("int", "5")>>)]
      [] s = JsonNumber -> [ok |-> TRUE, val |-> ChunkNotDict]
      [] OTHER -> [ok |-> FALSE, val |-> ChunkNotDict]

(***************************************************************************)
(* The lines response.iter_lines() can deliver.                            *)
(***************************************************************************)
LineBlank == ""
LineComment == ": ping"
LineDone == "data: [DONE]"
LineDoneNoSpace == "data:[DONE]"
LineGarbage == "data: {\"choices\":[{\"del"
LineHi == "data: " \o JsonHi
LineThere == "data:" \o JsonThere \o " "
LineTwoChoices == "data: " \o JsonTwoChoices
LineRoleOnly == "data: " \o JsonRoleOnly
LineEmptyChoices == "data: " \o JsonEmptyChoices
LineNoChoices == "data: " \o JsonNoChoices
LineNoDelta == "data: " \o JsonNoDelta
LineNullContent == "data: " \o JsonNullContent
LineIntContent == "data: " \o JsonIntContent
LineNumber == "data: " \o JsonNumber

Lines ==
    { LineBlank, LineComment, LineDone, LineDoneNoSpace, LineGarbage, LineHi,
      LineThere, LineTwoChoices, LineRoleOnly, LineEmptyChoices, LineNoChoices,
      LineNoDelta, LineNullContent, LineIntContent, LineNumber }

FewLines == { LineHi, LineThere, LineGarbage, LineNoChoices }

OneLine == { LineHi }

(***************************************************************************)
(* The decode loop of the chat function.  The state of one response is the *)
(* record [partial_message, out, done, raised]: the accumulator, the       *)
(* values yielded so far, whether the generator has returned, and the      *)
(* exception that left the generator (None: none did).                     *)
(***************************************************************************)
StartState == [partial_message |-> "", out |-> <<>>, done |-> FALSE, raised |-> None]

\* postprocess = lambda x: x
Postprocess(x) == x

\* a slip of Accumulate: the accumulator is replaced by the delta
AccumulateDeltaOnly(partial_message, delta) == delta

\* partial_message += delta
Accumulate(partial_message, delta) == partial_message \o delta

\* a slip of Except: the exception leaves the generator
Propagate(st, e) == [st EXCEPT !.raised = e, !.done = TRUE]

\* except Exception as e: yield f"Error: {str(e)}", and the generator returns
Except(st, e) == [st EXCEPT !.out = Append(@, "Error: " \o e), !.done = TRUE]

\* a slip of OnJSONDecodeError: break instead of continue
AbortOnDecodeError(st) == [st EXCEPT !.done = TRUE]

\* except json.JSONDecodeError: continue
OnJSONDecodeError(st) == st

\* chunk["choices"][0]["delta"].get("content", ""), partial_message += delta,
\* yield postprocess(partial_message); the exceptions are those Python raises
OnChunk(st, chunk) ==
    IF ~chunk.isDict THEN Except(st, "'int' object is not subscriptable")
    ELSE IF ~chunk.hasChoices THEN Except(st, "'choices'")
    ELSE IF chunk.choices = <<>> THEN st
    ELSE LET first == chunk.choices[1] IN
         IF ~first.hasDelta THEN Except(st, "'delta'")
         ELSE IF ~first.hasContent
              THEN LET acc == Accumulate(st.partial_message, "") IN
                   [st EXCEPT !.partial_message = acc,
                              !.out = Append(@, Postprocess(acc))]
         ELSE IF first.contentType = "null"
              THEN Except(st, "can only concatenate str (not \"NoneType\") to str")
         ELSE IF first.contentType # "str"
              THEN Except(st, "can only concatenate str (not \"int\") to str")
         ELSE LET acc == Accumulate(st.partial_message, first.content) IN
              [st EXCEPT !.partial_message = acc,
                         !.out = Append(@, Postprocess(acc))]

\* one iteration of `for line in response.iter_lines()`, on the decoded line
LineStep(st, line) ==
    IF line = "" THEN st
    ELSE IF StartsWith(line, "data:") /\ line # "data: [DONE]"
         THEN LET json_str == Strip(SliceFrom(line, 5), " ")
                  parsed == JsonLoads(json_str)
              IN  IF parsed.ok THEN OnChunk(st, parsed.val)
                  ELSE OnJSONDecodeError(st)
    ELSE st

\* the loop over a whole sequence of lines; it ends with the generator
RECURSIVE RunLines(_, _)
RunLines(st, lines) ==
    IF lines = <<>> \/ st.done THEN st ELSE RunLines(LineStep(st, Head(lines)), Tail(lines))

\* response.raise_for_status(): None when the status is a success
RaiseForStatus(status) ==
    IF status >= 400 /\ status < 500 THEN "Client Error"
    ELSE IF status >= 500 /\ status < 600 THEN "Server Error"
    ELSE None

(***************************************************************************)
(* Message values.  A user message, or one side of a history turn, is a    *)
(* Python value: a str, a dict {"text", "files"}, an int or None.  type is *)
(* the Python type, text the str (the digits of an int), files the list    *)
(* under "files", filesNone whether that entry is None.                    *)
(***************************************************************************)
StrValue(text) ==
    [type |-> "str", text |-> text, files |-> <<>>, filesNone |-> TRUE]

IntValue(digits) ==
    [type |-> "int", text |-> digits, files |-> <<>>, filesNone |-> TRUE]

DictValue(text, files) ==
    [type |-> "dict", text |-> text, files |-> files, filesNone |-> FALSE]

DictNoFiles(text) ==
    [type |-> "dict", text |-> text, files |-> <<>>, filesNone |-> TRUE]

NoneValue ==
    [type |-> "NoneType", text |-> "", files |-> <<>>, filesNone |-> TRUE]

\* repr() of a list of str
RECURSIVE ReprItems(_)
ReprItems(files) ==
    IF files = <<>> THEN ""
    ELSE "'" \o Head(files) \o "'"
         \o (IF Len(files) > 1 THEN ", " ELSE "") \o ReprItems(Tail(files))

\* str(value)
Str(v) ==
    CASE v.type = "str" -> v.text
      [] v.type = "int" -> v.text
      [] v.type = "NoneType" -> "None"
      [] OTHER -> "{'text': '" \o v.text \o "', 'files': "
                  \o (IF v.filesNone THEN "None" ELSE "[" \o ReprItems(v.files) \o "]")
                  \o "}"

(***************************************************************************)
(* get_interface_args.preprocess: the message list of a request.           *)
(***************************************************************************)
Message(role, content) == [role |-> role, content |-> content]

\* if system_prompt: messages.append(system message)
SystemMessages(system_prompt) ==
    IF Truthy(system_prompt) THEN <<Message("system", system_prompt)>> ELSE <<>>

\* a slip of TurnMessages: the assistant side is emitted even when absent
TurnMessagesAlwaysAssistant(turn) ==
    << Message("user", Str(turn.user_msg)),
       Message("assistant", Str(turn.assistant_msg)) >>

\* one iteration of `for user_msg, assistant_msg in history`
TurnMessages(turn) ==
    <<Message("user", Str(turn.user_msg))>>
    \o (IF turn.assistant_msg.type # "NoneType"
        THEN <<Message("assistant", Str(turn.assistant_msg))>>
        ELSE <<>>)

RECURSIVE HistoryMessages(_)
HistoryMessages(history) ==
    IF history = <<>> THEN <<>>
    ELSE TurnMessages(Head(history)) \o HistoryMessages(Tail(history))

\* a slip of Preprocess: the current message is added before the history
PreprocessHistoryLast(message, history, system_prompt) ==
    SystemMessages(system_prompt)
    \o <<Message("user", Str(message))>>
    \o HistoryMessages(history)

Preprocess(message, history, system_prompt) ==
    SystemMessages(system_prompt)
    \o HistoryMessages(history)
    \o <<Message("user", Str(message))>>

(***************************************************************************)
(* handle_user_msg and its helpers.  No function of the module calls it.   *)
(***************************************************************************)
RECURSIVE LastIndexOf(_, _, _)
\* the last position <= i of ch in s, 0 when there is none
LastIndexOf(s, ch, i) ==
    IF i = 0 THEN 0
    ELSE IF CharAt(s, i) = ch THEN i
    ELSE LastIndexOf(s, ch, i - 1)

\* os.path.splitext(p)[1]: from the last dot of the last component, when a
\* character other than a dot precedes it in that component
SplitExt(p) ==
    LET sep == LastIndexOf(p, "/", Len(p))
        dot == LastIndexOf(p, ".", Len(p))
    IN  IF dot > sep /\ \E i \in (sep + 1)..(dot - 1) : CharAt(p, i) # "."
        THEN SliceFrom(p, dot - 1)
        ELSE ""

UpperLetters == "ABCDEFGHIJKLMNOPQRSTUVWXYZ"
LowerLetters == "abcdefghijklmnopqrstuvwxyz"

LowerChar(ch) ==
    IF \E i \in 1..Len(UpperLetters) : CharAt(UpperLetters, i) = ch
    THEN CharAt(LowerLetters, CHOOSE i \in 1..Len(UpperLetters) : CharAt(UpperLetters, i) = ch)
    ELSE ch

\* str.lower()
RECURSIVE Lower(_)
Lower(s) == IF s = "" THEN "" ELSE LowerChar(CharAt(s, 1)) \o Lower(SliceFrom(s, 1))

ImageExtensions == {"png", "jpg", "jpeg", "gif"}

\* the base64 text of the file at a path (the file system is not modelled
\* further: every path of the model names a readable file)
FileBase64(path) == "QUJD"

GetImageBase64(url, ext) == "data:image/" \o ext \o ";base64," \o FileBase64(url)

\* the result is [raised, isList, text, image_url]: the exception raised
\* (None: none), whether the content is the [text, image_url] block list,
\* the text, and the data URI of the image block
HandleUserMsg(message) ==
    IF message.type = "str"
    THEN [raised |-> None, isList |-> FALSE, text |-> message.text, image_url |-> ""]
    ELSE IF message.type = "dict"
    THEN IF ~message.filesNone /\ Len(message.files) > 0
         THEN LET last == message.files[Len(message.files)]
                  ext == Strip(SplitExt(last), ".")
              IN  IF Lower(ext) \in ImageExtensions
                  THEN [raised |-> None, isList |-> TRUE, text |-> message.text,
                        image_url |-> GetImageBase64(last, ext)]
                  ELSE [raised |-> "NotImplementedError: Not supported file type " \o ext,
                        isList |-> FALSE, text |-> "", image_url |-> ""]
         ELSE [raised |-> None, isList |-> FALSE, text |-> message.text, image_url |-> ""]
    ELSE [raised |-> "NotImplementedError", isList |-> FALSE, text |-> "", image_url |-> ""]

(***************************************************************************)
(* registry and the functions it composes.                                 *)
(***************************************************************************)
ModelName == "deepseek/deepseek-r1"

\* a slip of ResolveKey: the environment value wins over the token
EnvFirst(tok, env) == IF Truthy(env) THEN env ELSE tok

\* api_key = token or os.environ.get("NOVITA_API_KEY")
ResolveKey(tok, env) == IF Truthy(tok) THEN tok ELSE env

\* get_pipeline: every model is a chat model
GetPipeline(name) == "chat"

\* get_interface_args: None, or the ValueError of an unsupported pipeline
InterfaceArgsError(pipeline) ==
    IF pipeline = "chat" THEN None ELSE "Unsupported pipeline type: " \o pipeline

\* a slip of Locals: the accumulator is kept in one place for all invocations
SharedLocals(c) == 1

\* the local variables of invocation c of the chat function: each call of
\* a generator function has a frame of its own
Locals(c) == c

Calls == {1, 2}

Reply(connected, status) == [connected |-> connected, status |-> status]

\* what requests.post can meet: no connection, or a response with a status
Replies == { Reply(FALSE, 0), Reply(TRUE, 200), Reply(TRUE, 401), Reply(TRUE, 503) }

NoRequest ==
    [sent |-> FALSE, url |-> "", authorization |-> "", model |-> "",
     messages |-> <<>>, stream |-> FALSE, max_tokens |-> 0]

VARIABLES
    environ,          \* os.environ.get("NOVITA_API_KEY"), None when unset
    built,            \* "none", "registry", "direct" (get_fn called by hand), "ValueError"
    token,            \* the token argument registry was called with
    api_key,          \* the credential the chat function closes over
    system_prompt,    \* the system prompt the chat function closes over
    pc,               \* per invocation: "idle", "iter" (in the line loop), "done"
    message,          \* per invocation: the message argument
    history,          \* per invocation: the history argument
    request,          \* per invocation: the request posted, NoRequest before
    delivered,        \* per invocation: the lines iter_lines has delivered
    failure,          \* per invocation: the transport failure met, None when none
    partial_message,  \* per frame of locals: the accumulator
    emitted,          \* per invocation: the values yielded
    raised            \* per invocation: the exception that left the generator

vars ==
    << environ, built, token, api_key, system_prompt, pc, message, history,
       request, delivered, failure, partial_message, emitted, raised >>

callVars ==
    << pc, message, history, request, delivered, failure, partial_message,
       emitted, raised >>

InitWith(envs) ==
    /\ environ \in envs
    /\ built = "none"
    /\ token = None
    /\ api_key = None
    /\ system_prompt = None
    /\ pc = [c \in Calls |-> "idle"]
    /\ message = [c \in Calls |-> NoneValue]
    /\ history = [c \in Calls |-> <<>>]
    /\ request = [c \in Calls |-> NoRequest]
    /\ delivered = [c \in Calls |-> <<>>]
    /\ failure = [c \in Calls |-> None]
    /\ partial_message = [c \in Calls |-> ""]
    /\ emitted = [c \in Calls |-> <<>>]
    /\ raised = [c \in Calls |-> None]

\* registry(name, token, coder)
Registry(name, tok, coder) ==
    /\ built = "none"
    /\ token' = tok
    /\ LET key == ResolveKey(tok, environ)
           prompt == SystemPrompts(IF coder THEN "coder" ELSE "default")
       IN  IF ~Truthy(key) \/ InterfaceArgsError(GetPipeline(name)) # None
           THEN /\ built' = "ValueError"
                /\ UNCHANGED << api_key, system_prompt >>
           ELSE /\ built' = "registry"
                /\ api_key' = key
                /\ system_prompt' = prompt
    /\ UNCHANGED << environ, callVars >>

\* get_interface_args("chat", prompt) and get_fn(name, preprocess,
\* postprocess, key, prompt) called by hand, without registry
GetFn(key, prompt) ==
    /\ built = "none"
    /\ built' = "direct"
    /\ api_key' = key
    /\ system_prompt' = prompt
    /\ UNCHANGED << environ, token, callVars >>

\* the chat function up to its line loop: preprocess, requests.post,
\* raise_for_status, partial_message = ""
Invoke(c, msg, hist, reply) ==
    /\ built \in {"registry", "direct"}
    /\ pc[c] = "idle"
    /\ LET inputs == Preprocess(msg, hist, system_prompt)
           req == [sent |-> TRUE,
                   url |-> NOVITA_API_BASE_URL \o "/chat/completions",
                   authorization |-> "Bearer " \o Format(api_key),
                   model |-> ModelName,
                   messages |-> inputs,
                   stream |-> TRUE,
                   max_tokens |-> MaxTokens]
           st0 == [partial_message |-> partial_message[Locals(c)], out |-> <<>>,
                   done |-> FALSE, raised |-> None]
           err == IF ~reply.connected THEN "Connection refused"
                  ELSE RaiseForStatus(reply.status)
           nx == IF err # None THEN Except(st0, err)
                 ELSE [st0 EXCEPT !.partial_message = ""]
       IN  /\ message' = [message EXCEPT ![c] = msg]
           /\ history' = [history EXCEPT ![c] = hist]
           /\ request' = [request EXCEPT ![c] = req]
           /\ failure' = [failure EXCEPT ![c] =
                              IF ~reply.connected THEN "connect"
                              ELSE IF reply.status >= 400 THEN "status"
                              ELSE None]
           /\ partial_message' = [partial_message EXCEPT ![Locals(c)] = nx.partial_message]
           /\ emitted' = [emitted EXCEPT ![c] = nx.out]
           /\ raised' = [raised EXCEPT ![c] = nx.raised]
           /\ pc' = [pc EXCEPT ![c] = IF nx.done THEN "done" ELSE "iter"]
    /\ UNCHANGED << environ, built, token, api_key, system_prompt, delivered >>

\* iter_lines delivers a line and the loop body runs on it
IterLine(c, line, bound) ==
    /\ pc[c] = "iter"
    /\ Len(delivered[c]) < bound
    /\ LET st == [partial_message |-> partial_message[Locals(c)], out |-> emitted[c],
                  done |-> FALSE, raised |-> raised[c]]
           nx == LineStep(st, line)
       IN  /\ delivered' = [delivered EXCEPT ![c] = Append(@, line)]
           /\ partial_message' = [partial_message EXCEPT ![Locals(c)] = nx.partial_message]
           /\ emitted' = [emitted EXCEPT ![c] = nx.out]
           /\ raised' = [raised EXCEPT ![c] = nx.raised]
           /\ pc' = [pc EXCEPT ![c] = IF nx.done THEN "done" ELSE "iter"]
    /\ UNCHANGED << environ, built, token, api_key, system_prompt, message,
                    history, request, failure >>

\* iter_lines raises: the connection broke while the body was being read
IterFail(c) ==
    /\ pc[c] = "iter"
    /\ LET st == [partial_message |-> partial_message[Locals(c)], out |-> emitted[c],
                  done |-> FALSE, raised |-> raised[c]]
           nx == Except(st, "Connection broken")
       IN  /\ failure' = [failure EXCEPT ![c] = "read"]
           /\ partial_message' = [partial_message EXCEPT ![Locals(c)] = nx.partial_message]
           /\ emitted' = [emitted EXCEPT ![c] = nx.out]
           /\ raised' = [raised EXCEPT ![c] = nx.raised]
           /\ pc' = [pc EXCEPT ![c] = IF nx.done THEN "done" ELSE "iter"]
    /\ UNCHANGED << environ, built, token, api_key, system_prompt, message,
                    history, request, delivered >>

\* iter_lines is exhausted: the loop and the generator end
IterEnd(c) ==
    /\ pc[c] = "iter"
    /\ pc' = [pc EXCEPT ![c] = "done"]
    /\ UNCHANGED << environ, built, token, api_key, system_prompt, message,
                    history, request, delivered, failure, partial_message,
                    emitted, raised >>

(***************************************************************************)
(* Inputs.                                                                 *)
(***************************************************************************)
Tokens == { None, "", "sk-token" }

Environs == { None, "", "sk-env" }

DirectPrompts == { None, "" }

UserValues == { StrValue("q"), IntValue("7") }

AssistantValues == { NoneValue, StrValue("a") }

Turns == [user_msg : UserValues, assistant_msg : AssistantValues]

RECURSIVE SeqsUpTo(_, _)
SeqsUpTo(S, n) ==
    IF n = 0 THEN { <<>> }
    ELSE LET shorter == SeqsUpTo(S, n - 1)
         IN  shorter \cup { Append(h, x) : h \in shorter, x \in S }

Histories == SeqsUpTo(Turns, MaxTurns)

MessageValues ==
    { StrValue("hello"),
      DictValue("look", <<"a.bmp">>),
      DictValue("look", <<"b.txt", "c.PNG">>),
      DictNoFiles("plain") }

(***************************************************************************)
(* The stream specification: one registered chat function, one invocation, *)
(* every line the transport can deliver.                                   *)
(***************************************************************************)
Init == InitWith({ None })

Next ==
    \/ Registry(ModelName, "sk-token", TRUE)
    \/ \E reply \in Replies : Invoke(1, StrValue("hello"), <<>>, reply)
    \/ \E line \in Lines : IterLine(1, line, MaxFrames)
    \/ IterFail(1)
    \/ IterEnd(1)

Spec == Init /\ [][Next]_vars

(***************************************************************************)
(* The build specification: every credential, prompt, message and history, *)
(* and a short response.                                                   *)
(***************************************************************************)
InitBuild == InitWith(Environs)

NextBuild ==
    \/ \E tok \in Tokens, coder \in BOOLEAN : Registry(ModelName, tok, coder)
    \/ \E prompt \in DirectPrompts : GetFn("sk-direct", prompt)
    \/ \E msg \in MessageValues, hist \in Histories, reply \in Replies :
           Invoke(1, msg, hist, reply)
    \/ \E line \in OneLine : IterLine(1, line, BuildFrames)
    \/ IterFail(1)
    \/ IterEnd(1)

SpecBuild == InitBuild /\ [][NextBuild]_vars

(***************************************************************************)
(* The two-invocation specification: two responses of one chat function,   *)
(* consumed in any interleaving.                                           *)
(***************************************************************************)
NextConc ==
    \/ Registry(ModelName, "sk-token", FALSE)
    \/ \E c \in Calls, reply \in Replies : Invoke(c, StrValue("hello"), <<>>, reply)
    \/ \E c \in Calls, line \in FewLines : IterLine(c, line, ConcFrames)
    \/ \E c \in Calls : IterFail(c)
    \/ \E c \in Calls : IterEnd(c)

SpecConc == Init /\ [][NextConc]_vars

(***************************************************************************)
(* Vocabulary of the properties.                                           *)
(***************************************************************************)
IsError(v) == StartsWith(v, "Error: ")

ErrorCount(values) == Cardinality({ i \in DOMAIN values : IsError(values[i]) })

IsData(line) == StartsWith(line, "data:")

\* the payload of a data line: what follows the prefix, without the blanks
Payload(line) == Strip(SliceFrom(line, 5), " ")

\* a data line whose payload is not JSON, the sentinel line apart
Unparseable(line) ==
    IsData(line) /\ line # "data: [DONE]" /\ ~JsonLoads(Payload(line)).ok

\* a data line whose payload is a chunk record with a non-empty choices list
\* whose first choice has a delta with text content, or with no content
WellFormed(line) ==
    /\ IsData(line)
    /\ JsonLoads(Payload(line)).ok
    /\ LET chunk == JsonLoads(Payload(line)).val
       IN  /\ chunk.isDict
           /\ chunk.hasChoices
           /\ chunk.choices # <<>>
           /\ chunk.choices[1].hasDelta
           /\ chunk.choices[1].hasContent => chunk.choices[1].contentType = "str"

\* a data line whose payload parses but is no chunk record: no choices
\* field, a first choice without a delta, or content that is not text
IllFormed(line) ==
    /\ IsData(line)
    /\ JsonLoads(Payload(line)).ok
    /\ LET chunk == JsonLoads(Payload(line)).val
       IN  \/ ~chunk.isDict
           \/ ~chunk.hasChoices
           \/ /\ chunk.choices # <<>>
              /\ \/ ~chunk.choices[1].hasDelta
                 \/ /\ chunk.choices[1].hasContent
                    /\ chunk.choices[1].contentType # "str"

FirstDelta(line) ==
    LET first == JsonLoads(Payload(line)).val.choices[1]
    IN  IF first.hasContent THEN first.content ELSE ""

RECURSIVE ConcatDeltas(_, _)
ConcatDeltas(lines, k) ==
    IF k = 0 THEN "" ELSE ConcatDeltas(lines, k - 1) \o FirstDelta(lines[k])

Without(lines, Dropped(_)) == SelectSeq(lines, LAMBDA l : ~Dropped(l))

DoneSeen(c) ==
    \E i \in DOMAIN delivered[c] :
        IsData(delivered[c][i]) /\ Payload(delivered[c][i]) = "[DONE]"

Last(values) == values[Len(values)]

(***************************************************************************)
(* C1.  Once a data line whose payload is exactly [DONE] has been read,    *)
(* reading further lines of that response emits no value.                  *)
(***************************************************************************)
C1_DoneTerminates ==
    [][\A c \in Calls :
          DoneSeen(c) /\ delivered'[c] # delivered[c] => emitted'[c] = emitted[c]]_vars

(***************************************************************************)
(* C2.  When every line delivered so far is a well-formed data line and    *)
(* the transport has not failed, one snapshot was emitted per line, the    *)
(* k-th is the concatenation of the first-choice deltas of the first k     *)
(* lines, each snapshot extends the one before it, and the accumulator is  *)
(* the last snapshot.                                                      *)
(***************************************************************************)
C2_CumulativeSnapshots ==
    \A c \in Calls :
        (failure[c] = None /\ pc[c] # "idle"
         /\ \A i \in DOMAIN delivered[c] : WellFormed(delivered[c][i]))
        => /\ Len(emitted[c]) = Len(delivered[c])
           /\ \A k \in DOMAIN emitted[c] :
                  /\ emitted[c][k] = ConcatDeltas(delivered[c], k)
                  /\ k > 1 => StartsWith(emitted[c][k], emitted[c][k - 1])
           /\ partial_message[c] = ConcatDeltas(delivered[c], Len(delivered[c]))

C2_Witness ==
    /\ delivered[1] = << LineHi, LineThere, LineTwoChoices >>
    /\ emitted[1] = << "Hi", "Hi there", "Hi thereA" >>

(***************************************************************************)
(* C3.  An unparseable data line is skipped: without a transport failure   *)
(* the emitted values are those of the delivered lines with the            *)
(* unparseable ones removed, and the step that reads an unparseable line   *)
(* emits nothing, keeps the accumulator and leaves the loop running.       *)
(***************************************************************************)
C3_SkippedState ==
    \A c \in Calls :
        (failure[c] = None /\ pc[c] # "idle")
        => emitted[c] = RunLines(StartState, Without(delivered[c], Unparseable)).out

C3_SkippedStep ==
    \A c \in Calls :
        (Len(delivered'[c]) = Len(delivered[c]) + 1 /\ Unparseable(Last(delivered'[c])))
        => /\ emitted'[c] = emitted[c]
           /\ partial_message'[c] = partial_message[c]
           /\ pc'[c] = "iter"

C3_UnparseableSkipped == []C3_SkippedState /\ [][C3_SkippedStep]_vars

C3_Witness ==
    /\ delivered[1] = << LineHi, LineGarbage, LineThere >>
    /\ emitted[1] = << "Hi", "Hi there" >>
    /\ failure[1] = None

(***************************************************************************)
(* C4.  After a transport failure (no connection, a status of 400 or more, *)
(* a broken read) the response is over, exactly one of its values is an    *)
(* Error: value, it is the last one, the values before it are the          *)
(* snapshots of the lines read, and no exception left the generator.       *)
(***************************************************************************)
C4_TransportFailure ==
    \A c \in Calls :
        failure[c] # None
        => /\ pc[c] = "done"
           /\ raised[c] = None
           /\ Len(emitted[c]) >= 1
           /\ IsError(Last(emitted[c]))
           /\ ErrorCount(emitted[c]) = 1
           /\ failure[c] = "connect" => Last(emitted[c]) = "Error: Connection refused"
           /\ failure[c] = "read" => Last(emitted[c]) = "Error: Connection broken"
           /\ SubSeq(emitted[c], 1, Len(emitted[c]) - 1)
                  = RunLines(StartState, delivered[c]).out

C4_Witness ==
    /\ failure[1] = "read"
    /\ emitted[1] = << "Hi", "Error: Connection broken" >>
    /\ pc[1] = "done"

(***************************************************************************)
(* C9.  A data line whose payload parses but is not a chunk record is      *)
(* swallowed: without a transport failure no Error: value is emitted and   *)
(* the emitted values are those of the delivered lines with such lines     *)
(* removed.                                                                *)
(***************************************************************************)
C9_IllFormedSwallowed ==
    \A c \in Calls :
        (failure[c] = None /\ pc[c] # "idle")
        => /\ \A i \in DOMAIN emitted[c] : ~IsError(emitted[c][i])
           /\ emitted[c] = RunLines(StartState, Without(delivered[c], IllFormed)).out

(***************************************************************************)
(* C5.  A message whose last attachment has an unsupported extension makes *)
(* the chat function raise the unsupported-kind failure of handle_user_msg *)
(* and post no request.                                                    *)
(***************************************************************************)
C5_UnsupportedAttachmentRaises ==
    \A c \in Calls :
        (pc[c] # "idle" /\ HandleUserMsg(message[c]).raised # None)
        => /\ raised[c] = HandleUserMsg(message[c]).raised
           /\ ~request[c].sent

(***************************************************************************)
(* C6.  registry uses the explicit token when it is non-empty, else the    *)
(* environment value when that is non-empty, else raises before a chat     *)
(* function exists; every request of a registered chat function carries    *)
(* the resolved, non-empty credential.                                     *)
(***************************************************************************)
C6_CredentialResolution ==
    /\ built \in {"registry", "ValueError"}
       => /\ (~Truthy(token) /\ ~Truthy(environ)) => built = "ValueError"
          /\ Truthy(token) => (built = "registry" /\ api_key = token)
          /\ (~Truthy(token) /\ Truthy(environ))
                 => (built = "registry" /\ api_key = environ)
    /\ built = "ValueError" => \A c \in Calls : pc[c] = "idle" /\ ~request[c].sent
    /\ \A c \in Calls :
           (built = "registry" /\ request[c].sent)
           => /\ Truthy(api_key)
              /\ request[c].authorization = "Bearer " \o api_key
              /\ Truthy(token) => request[c].authorization = "Bearer " \o token

C6_Witness ==
    /\ token = "sk-token"
    /\ environ = "sk-env"
    /\ request[1].sent
    /\ request[1].authorization = "Bearer sk-token"

(***************************************************************************)
(* C7.  The message list of a request has one message for the system       *)
(* prompt when one is set, one per history turn, one more per turn whose   *)
(* assistant side is present, and one for the current input.               *)
(***************************************************************************)
Present(hist) == { k \in DOMAIN hist : hist[k].assistant_msg.type # "NoneType" }

SystemCount == IF Truthy(system_prompt) THEN 1 ELSE 0

C7_MessageCount ==
    \A c \in Calls :
        request[c].sent
        => /\ Len(request[c].messages)
                  = SystemCount + Len(history[c]) + Cardinality(Present(history[c])) + 1
           /\ Present(history[c]) = DOMAIN history[c]
                  => Len(request[c].messages) = Len(history[c]) * 2 + 1 + SystemCount

C7_Witness ==
    /\ request[1].sent
    /\ Truthy(system_prompt)
    /\ Len(history[1]) = 2
    /\ Present(history[1]) = {2}
    /\ Len(request[1].messages) = 5

(***************************************************************************)
(* C8.  The message list of a request is ordered: the system message, when *)
(* a prompt is set, is first and no other message has the system role; the *)
(* history turns follow in order, the user message of a turn immediately   *)
(* followed by its assistant message when present; the last message is the *)
(* user message of the current input.                                      *)
(***************************************************************************)
\* the place of the user message of turn k
TurnPlace(hist, k) ==
    SystemCount + k + Cardinality({ j \in Present(hist) : j < k })

C8_MessageOrder ==
    \A c \in Calls :
        request[c].sent
        => LET ms == request[c].messages
               hist == history[c]
           IN  /\ Len(ms) >= 1
               /\ Truthy(system_prompt) => ms[1] = Message("system", system_prompt)
               /\ \A i \in DOMAIN ms :
                      ms[i].role = "system" => (i = 1 /\ Truthy(system_prompt))
               /\ \A k \in DOMAIN hist :
                      /\ TurnPlace(hist, k) + 1 <= Len(ms)
                      /\ ms[TurnPlace(hist, k)] = Message("user", Str(hist[k].user_msg))
                      /\ k \in Present(hist)
                             => ms[TurnPlace(hist, k) + 1]
                                    = Message("assistant", Str(hist[k].assistant_msg))
               /\ Last(ms) = Message("user", Str(message[c]))

C8_Witness ==
    /\ request[1].sent
    /\ history[1] = << [user_msg |-> IntValue("7"), assistant_msg |-> StrValue("a")],
                       [user_msg |-> StrValue("q"), assistant_msg |-> NoneValue] >>
    /\ request[1].messages
           = << Message("system", PromptDefault), Message("user", "7"),
                Message("assistant", "a"), Message("user", "q"),
                Message("user", "{'text': 'look', 'files': ['b.txt', 'c.PNG']}") >>

(***************************************************************************)
(* C10.  Two invocations of one chat function share no state: the values   *)
(* each has emitted are those of its own delivered lines, followed by the  *)
(* Error: value of its own transport failure when it met one.              *)
(***************************************************************************)
C10_OwnFramesOnly ==
    \A c \in Calls :
        pc[c] # "idle"
        => LET own == RunLines(StartState, delivered[c]).out
           IN  IF failure[c] = None
               THEN emitted[c] = own
               ELSE /\ Len(emitted[c]) = Len(own) + 1
                    /\ SubSeq(emitted[c], 1, Len(own)) = own
                    /\ IsError(Last(emitted[c]))

C10_Witness ==
    /\ pc[1] = "iter"
    /\ pc[2] = "iter"
    /\ emitted[1] = << "Hi", "Hi there" >>
    /\ emitted[2] = << " there" >>

====
